---- MODULE Spec2Model ----
(***************************************************************************)
(* Model of custom_components/idm/sensor.py: the IDM heating sensor        *)
(* platform.  One IdmData object (the remote client) polls the vendor API  *)
(* behind homeassistant.util.Throttle; every IdmHeatingSensor (a metric    *)
(* view) calls it and then extracts its own field from the shared          *)
(* snapshot.                                                               *)
(*                                                                         *)
(* Python strings that the code edits (replace, rstrip, lower, float, int) *)
(* are sequences of one-character strings; the character "deg" stands for  *)
(* the degree sign.  Python values are tagged records: [t |-> "none"],     *)
(* [t |-> "str", s |-> chars], [t |-> "int", n |-> i],                     *)
(* [t |-> "float", m |-> mantissa, e |-> number of decimals].              *)
(***************************************************************************)
EXTENDS Integers, Sequences, FiniteSets, TLC

VARIABLES now, config, idm, views, last, hist, since, probe, thr

vars == <<now, config, idm, views, last, hist, since, probe, thr>>

\* ------------------------------------------------------------- bounds
\* The clock advances in steps of TickStep seconds up to MaxTime.  Where a
\* recovery of the remote service is modelled, it has failed for the last
\* time by RecoverAt.
TickStep == 150
RecoverAt == 150
MaxTime == 600

\* Throughout, CHOOSE r \in {F(x) : x \in {e}} : TRUE is F(e), written so
\* that e is evaluated once however often F uses it.

\* ------------------------------------------------------------- values
None == [t |-> "none"]
PStr(s) == [t |-> "str", s |-> s]
PInt(n) == [t |-> "int", n |-> n]

RECURSIVE Pow10(_)
Pow10(k) == IF k = 0 THEN 1 ELSE 10 * Pow10(k - 1)

RECURSIVE Normalise(_, _)
\* A decimal m / 10^e with trailing zero decimals removed, so that equal
\* numbers are equal records (21.50 = 21.5).
Normalise(m, e) ==
    IF e > 0 /\ m % 10 = 0 THEN Normalise(m \div 10, e - 1)
    ELSE [t |-> "float", m |-> m, e |-> e]

PFloat(m, e) == Normalise(m, e)

\* ------------------------------------------------------------ strings
Digits == <<"0", "1", "2", "3", "4", "5", "6", "7", "8", "9">>
UpperCase == <<"A","B","C","D","E","F","G","H","I","J","K","L","M",
               "N","O","P","Q","R","S","T","U","V","W","X","Y","Z">>
LowerCase == <<"a","b","c","d","e","f","g","h","i","j","k","l","m",
               "n","o","p","q","r","s","t","u","v","w","x","y","z">>

Range(f) == {f[i] : i \in DOMAIN f}
IndexIn(c, alphabet) == CHOOSE i \in DOMAIN alphabet : alphabet[i] = c
IsDigit(c) == c \in Range(Digits)
DigitVal(c) == IndexIn(c, Digits) - 1
IsSpace(c) == c = " "

\* str.lower()
LowerChar(c) == IF c \in Range(UpperCase) THEN LowerCase[IndexIn(c, UpperCase)] ELSE c
Lower(s) == [i \in DOMAIN s |-> LowerChar(s[i])]

\* The string as it is.
Untitled(s) == s

\* s.title(): a letter that follows no letter in upper case, every other
\* letter in lower case.
IsLetter(c) == c \in Range(UpperCase) \cup Range(LowerCase)
UpperChar(c) == IF c \in Range(LowerCase) THEN UpperCase[IndexIn(c, LowerCase)] ELSE c
Title(s) ==
    [i \in DOMAIN s |-> IF i = 1 \/ ~IsLetter(s[IF i = 1 THEN 1 ELSE i - 1])
                        THEN UpperChar(s[i]) ELSE LowerChar(s[i])]

\* s[i:].startswith(old)
StartsAt(s, i, old) ==
    /\ i + Len(old) - 1 <= Len(s)
    /\ \A k \in 1..Len(old) : s[i + k - 1] = old[k]

RECURSIVE ReplaceFrom(_, _, _, _)
ReplaceFrom(s, i, old, new) ==
    IF i > Len(s) THEN <<>>
    ELSE IF StartsAt(s, i, old) THEN new \o ReplaceFrom(s, i + Len(old), old, new)
    ELSE <<s[i]>> \o ReplaceFrom(s, i + 1, old, new)

\* str.replace(old, new) for a non-empty old: every non-overlapping
\* occurrence, found left to right.
Replace(s, old, new) == ReplaceFrom(s, 1, old, new)

RECURSIVE RStrip(_, _)
\* str.rstrip(chars): drops trailing characters while they are in the SET
\* of characters of chars.
RStrip(s, chars) ==
    IF s # <<>> /\ s[Len(s)] \in Range(chars) THEN RStrip(SubSeq(s, 1, Len(s) - 1), chars)
    ELSE s

RECURSIVE LStripSpace(_)
LStripSpace(s) ==
    IF s # <<>> /\ IsSpace(s[1]) THEN LStripSpace(SubSeq(s, 2, Len(s))) ELSE s

\* str.strip() as float() and int() apply it to their argument.
Strip(s) == LStripSpace(RStrip(s, <<" ">>))

RECURSIVE DigitsValue(_)
DigitsValue(s) ==
    IF s = <<>> THEN 0 ELSE 10 * DigitsValue(SubSeq(s, 1, Len(s) - 1)) + DigitVal(s[Len(s)])

AllDigits(s) == \A i \in DOMAIN s : IsDigit(s[i])
HasSign(s) == s # <<>> /\ s[1] \in {"+", "-"}
Unsigned(s) == IF HasSign(s) THEN SubSeq(s, 2, Len(s)) ELSE s
SignOf(s) == IF s # <<>> /\ s[1] = "-" THEN -1 ELSE 1
PointAt(s) == IF \E i \in DOMAIN s : s[i] = "." THEN CHOOSE i \in DOMAIN s : s[i] = "." ELSE 0
IntPart(s) == IF PointAt(s) = 0 THEN s ELSE SubSeq(s, 1, PointAt(s) - 1)
FracPart(s) == IF PointAt(s) = 0 THEN <<>> ELSE SubSeq(s, PointAt(s) + 1, Len(s))

\* The decimal literals of float(): [sign] digits [ "." [digits] ] or
\* [sign] "." digits.  (Exponents, "inf", "nan" and digit-group underscores
\* need characters no modelled field value leads to after stripping.)
IsDecimalLiteral(s) ==
    LET u == Unsigned(s) IN
    /\ AllDigits(IntPart(u))
    /\ AllDigits(FracPart(u))
    /\ Len(IntPart(u)) + Len(FracPart(u)) > 0

DecimalValue(s) ==
    LET u == Unsigned(s) IN
    PFloat(SignOf(s) * (DigitsValue(IntPart(u)) * Pow10(Len(FracPart(u))) + DigitsValue(FracPart(u))),
          Len(FracPart(u)))

\* The integer literals of int(str): [sign] digits.
IsIntLiteral(s) == LET u == Unsigned(s) IN u # <<>> /\ AllDigits(u)
IntValue(s) == SignOf(s) * DigitsValue(Unsigned(s))

\* Results of a Python expression: a value or the exception it raises.
Ok(v) == [exc |-> "none", v |-> v]
Raise(e) == [exc |-> e, v |-> None]

\* float(x)
PyFloat(x) ==
    CASE x.t = "str" ->
            CHOOSE r \in {IF IsDecimalLiteral(s) THEN Ok(DecimalValue(s))
                          ELSE Raise("ValueError") : s \in {Strip(x.s)}} : TRUE
      [] x.t = "int" -> Ok(PFloat(x.n, 0))
      [] x.t = "float" -> Ok(x)
      [] OTHER -> Raise("TypeError")

\* int(x): a float is truncated towards zero.
PyInt(x) ==
    CASE x.t = "str" ->
            CHOOSE r \in {IF IsIntLiteral(s) THEN Ok(PInt(IntValue(s)))
                          ELSE Raise("ValueError") : s \in {Strip(x.s)}} : TRUE
      [] x.t = "int" -> Ok(x)
      [] x.t = "float" -> Ok(PInt(IF x.m >= 0 THEN x.m \div Pow10(x.e)
                                 ELSE -((-x.m) \div Pow10(x.e))))
      [] OTHER -> Raise("TypeError")

\* ---------------------------------------------------- program constants
MIN_TIME_BETWEEN_UPDATES == 300

\* The metric keys the branches of IdmHeatingSensor.update compare with.
k_mode == <<"m","o","d","e">>
k_circuit_mode == <<"c","i","r","c","u","i","t","_","m","o","d","e">>
k_errors == <<"e","r","r","o","r","s">>
k_heat_quantity == <<"h","e","a","t","_","q","u","a","n","t","i","t","y">>
k_outside_temp == <<"o","u","t","s","i","d","e","_","t","e","m","p">>
k_forerun_temp_actual == <<"f","o","r","e","r","u","n","_","t","e","m","p","_","a","c","t","u","a","l">>
k_forerun_temp_target == <<"f","o","r","e","r","u","n","_","t","e","m","p","_","t","a","r","g","e","t">>
k_room_temp_target == <<"r","o","o","m","_","t","e","m","p","_","t","a","r","g","e","t">>
k_return_flow_temp == <<"r","e","t","u","r","n","_","f","l","o","w","_","t","e","m","p">>
k_hygienic_temp == <<"h","y","g","i","e","n","i","c","_","t","e","m","p">>
k_water_temp == <<"w","a","t","e","r","_","t","e","m","p">>

\* The tokens and labels of modeDictionary and circuitModeDictionary.
icon_12 == <<"i","c","o","n","_","1","2">>
icon_auto == <<"i","c","o","n","_","a","u","t","o">>
icon_3 == <<"i","c","o","n","_","3">>
icon_24 == <<"i","c","o","n","_","2","4">>
icon_21 == <<"i","c","o","n","_","2","1">>
icon_11 == <<"i","c","o","n","_","1","1">>
icon_5 == <<"i","c","o","n","_","5">>
icon_1 == <<"i","c","o","n","_","1">>
l_Aus == <<"A","u","s">>
l_Automatik == <<"A","u","t","o","m","a","t","i","k">>
l_Warmwasser == <<"W","a","r","m","w","a","s","s","e","r"," ","o","d","e","r"," ","E","i","n","m","a","l","i","g","e"," ","W","W"," ","L","a","d","u","n","g">>
l_Zeitprogramm == <<"Z","e","i","t","p","r","o","g","r","a","m","m">>
l_Normal == <<"N","o","r","m","a","l">>
l_Eco == <<"E","c","o">>
l_manuell_Heizen == <<"m","a","n","u","e","l","l"," ","H","e","i","z","e","n">>
l_manuell_Kuehlen == <<"m","a","n","u","e","l","l"," ","K","uuml","h","l","e","n">>

\* The arguments of rstrip.
u_kWh == <<" ","k","W","h">>
u_degC == <<" ","deg","C">>

\* A table in which the label of one token is another token of the table.
modeDictionaryChained ==
    << <<icon_12, l_Aus>>, <<icon_auto, icon_12>>, <<icon_3, l_Warmwasser>> >>

\* Dictionaries in insertion order, as sequences of <<key, value>>.
modeDictionary ==
    << <<icon_12, l_Aus>>, <<icon_auto, l_Automatik>>, <<icon_3, l_Warmwasser>> >>

\* The circuit table with its shortest token entered first.
circuitModeDictionaryShortFirst ==
    << <<icon_1, l_manuell_Kuehlen>>, <<icon_12, l_Aus>>, <<icon_24, l_Zeitprogramm>>,
       <<icon_21, l_Normal>>, <<icon_11, l_Eco>>, <<icon_5, l_manuell_Heizen>> >>

circuitModeDictionary ==
    << <<icon_12, l_Aus>>, <<icon_24, l_Zeitprogramm>>, <<icon_21, l_Normal>>,
       <<icon_11, l_Eco>>, <<icon_5, l_manuell_Heizen>>, <<icon_1, l_manuell_Kuehlen>> >>

pathLogin == "/api/user/login"
pathInstallations == "/api/installation/values"

\* SENSOR_TYPES: key, then [label, unit, icon].
SENSOR_PREFIX == <<"H","e","a","t","i","n","g"," ">>
t_mode == <<"m","o","d","e">>
t_circuit_mode == <<"c","i","r","c","u","i","t"," ","m","o","d","e">>
t_errors == <<"e","r","r","o","r","s">>
t_heat_quantity == <<"h","e","a","t"," ","q","u","a","n","t","i","t","y">>
t_outside_temp == <<"o","u","t","s","i","d","e"," ","t","e","m","p",".">>
t_forerun_temp_actual == <<"f","o","r","e","r","u","n"," ","t","e","m","p","."," ","(","a","c","t","u","a","l",")">>
t_forerun_temp_target == <<"f","o","r","e","r","u","n"," ","t","e","m","p","."," ","(","t","a","r","g","e","t",")">>
t_room_temp_target == <<"r","o","o","m"," ","t","e","m","p","."," ","(","t","a","r","g","e","t",")">>
t_return_flow_temp == <<"r","e","t","u","r","n"," ","f","l","o","w"," ","t","e","m","p",".">>
t_hygienic_temp == <<"h","y","g","i","e","n","i","c"," ","t","e","m","p",".">>
t_water_temp == <<"w","a","t","e","r"," ","t","e","m","p",".">>

SENSOR_TYPES ==
    << <<k_mode, <<t_mode, <<>>, "mdi:settings">>>>,
       <<k_circuit_mode, <<t_circuit_mode, <<>>, "mdi:settings">>>>,
       <<k_errors, <<t_errors, <<"#">>, "mdi:alert-circle">>>>,
       <<k_heat_quantity, <<t_heat_quantity, <<"k","W","h">>, "mdi:radiator">>>>,
       <<k_outside_temp, <<t_outside_temp, <<"deg","C">>, "mdi:thermometer">>>>,
       <<k_forerun_temp_actual,
         <<t_forerun_temp_actual, <<"deg","C">>, "mdi:temperature-celsius">>>>,
       <<k_forerun_temp_target,
         <<t_forerun_temp_target, <<"deg","C">>, "mdi:temperature-celsius">>>>,
       <<k_room_temp_target, <<t_room_temp_target, <<"deg","C">>, "mdi:thermometer">>>>,
       <<k_return_flow_temp,
         <<t_return_flow_temp, <<"deg","C">>, "mdi:temperature-celsius">>>>,
       <<k_hygienic_temp, <<t_hygienic_temp, <<"deg","C">>, "mdi:temperature-celsius">>>>,
       <<k_water_temp, <<t_water_temp, <<"deg","C">>, "mdi:temperature-celsius">>>> >>

\* key in dictionary, dictionary[key]
HasKey(dictionary, key) == \E i \in DOMAIN dictionary : dictionary[i][1] = key
Lookup(dictionary, key) ==
    dictionary[CHOOSE i \in DOMAIN dictionary : dictionary[i][1] = key][2]

\* Keys with a branch in IdmHeatingSensor.update.
RuleKeys ==
    {k_mode, k_circuit_mode, k_errors, k_heat_quantity, k_outside_temp,
     k_forerun_temp_actual, k_forerun_temp_target, k_room_temp_target,
     k_return_flow_temp, k_hygienic_temp, k_water_temp}

\* ------------------------------------------------------------- inputs
\* Requested resources that are not keys of the table, and field values the
\* remote service may send.
k_power == <<"p","o","w","e","r">>
r_Mode == <<"M","o","d","e">>
icon_35 == <<"i","c","o","n","_","3","5">>
icon_13 == <<"i","c","o","n","_","1","3">>
icon_50 == <<"i","c","o","n","_","5","0">>
v_3 == <<"3">>
v_x == <<"x">>
v_na_C == <<"n","/","a"," ","deg","C">>
v_12_5_kWh == <<"1","2",".","5"," ","k","W","h">>
v_nan_kWh == <<"n","o","t","-","a","-","n","u","m","b","e","r"," ","k","W","h">>
v_m3_5_C == <<"-","3",".","5"," ","deg","C">>
v_30_C == <<"3","0"," ","deg","C">>
v_48_2_C == <<"4","8",".","2"," ","deg","C">>
v_50_0_C == <<"5","0",".","0"," ","deg","C">>
v_28_4_C == <<"2","8",".","4"," ","deg","C">>
v_29_C == <<"2","9"," ","deg","C">>
v_22 == <<"2","2">>
v_7_kWh == <<"7"," ","k","W","h">>
v_4_C == <<"4"," ","deg","C">>

\* --------------------------------------------------------- extraction
PFalse == [t |-> "bool", b |-> FALSE]

\* A decoded JSON object held in self.data.
Dict(d) == [t |-> "dict", d |-> d]

\* heatingData[f]: subscripting None raises TypeError, a missing key KeyError.
TopField(heatingData, f) ==
    IF heatingData.t = "none" THEN Raise("TypeError")
    ELSE IF f \notin DOMAIN heatingData.d THEN Raise("KeyError")
    ELSE Ok(heatingData.d[f])

\* heatingData["circuits"][0][f]
CircuitField(heatingData, f) ==
    IF heatingData.t = "none" THEN Raise("TypeError")
    ELSE IF "circuits" \notin DOMAIN heatingData.d THEN Raise("KeyError")
    ELSE IF Len(heatingData.d.circuits) = 0 THEN Raise("IndexError")
    ELSE IF f \notin DOMAIN heatingData.d.circuits[1] THEN Raise("KeyError")
    ELSE Ok(heatingData.d.circuits[1][f])

RECURSIVE ReplaceEach(_, _, _)
ReplaceEach(s, dictionary, i) ==
    IF i > Len(dictionary) THEN s
    ELSE CHOOSE r \in {ReplaceEach(t, dictionary, i + 1) :
                         t \in {Replace(s, dictionary[i][1], dictionary[i][2])}} : TRUE

\* for key, value in dictionary.items(): s = s.replace(key, value)
Translate(s, dictionary) == ReplaceEach(s, dictionary, 1)

\* What the try block of IdmHeatingSensor.update leaves: the exception it
\* ends with ("none" when it completes), whether self._state was assigned
\* and to what, and the snapshot object after the block (the mode branches
\* assign into heatingData, which is the object self.data.data refers to).
Extracted(exc, assigned, state, heatingData) ==
    [exc |-> exc, assigned |-> assigned, state |-> state, data |-> heatingData]

ModeBranch(heatingData) ==
    LET r == TopField(heatingData, "mode") IN
    IF r.exc # "none" THEN Extracted(r.exc, FALSE, None, heatingData)
    ELSE IF r.v.t # "str" THEN Extracted("AttributeError", FALSE, None, heatingData)
    ELSE LET new == PStr(Translate(r.v.s, modeDictionary)) IN
         Extracted("none", TRUE, new, [heatingData EXCEPT !.d.mode = new])

CircuitModeBranch(heatingData) ==
    LET r == CircuitField(heatingData, "mode") IN
    IF r.exc # "none" THEN Extracted(r.exc, FALSE, None, heatingData)
    ELSE IF r.v.t # "str" THEN Extracted("AttributeError", FALSE, None, heatingData)
    ELSE LET new == PStr(Translate(r.v.s, circuitModeDictionary)) IN
         Extracted("none", TRUE, new, [heatingData EXCEPT !.d.circuits[1].mode = new])

\* self._state = c, for a conversion c that returned; otherwise its exception.
Assign(c, heatingData) == Extracted(c.exc, c.exc = "none", c.v, heatingData)

\* self._state = int(<field>)
IntBranch(r, heatingData) ==
    IF r.exc # "none" THEN Extracted(r.exc, FALSE, None, heatingData)
    ELSE CHOOSE x \in {Assign(c, heatingData) : c \in {PyInt(r.v)}} : TRUE

\* self._state = float(<field>)
FloatBranch(r, heatingData) ==
    IF r.exc # "none" THEN Extracted(r.exc, FALSE, None, heatingData)
    ELSE CHOOSE x \in {Assign(c, heatingData) : c \in {PyFloat(r.v)}} : TRUE

\* <field>.rstrip(chars): only a str has rstrip.
PyRStrip(r, chars) ==
    IF r.exc # "none" THEN r
    ELSE IF r.v.t # "str" THEN Raise("AttributeError")
    ELSE Ok(PStr(RStrip(r.v.s, chars)))

\* float(<field>) with the unit suffix left on.
UnstrippedFloatBranch(r, chars, heatingData) == FloatBranch(r, heatingData)

\* self._state = float(<field>.rstrip(chars))
StrippedFloatBranch(r, chars, heatingData) ==
    CHOOSE x \in {FloatBranch(s, heatingData) : s \in {PyRStrip(r, chars)}} : TRUE

\* The if/elif chain inside the try block; a type with no branch does nothing.
TryBlock(type, heatingData) ==
    CASE type = k_mode -> ModeBranch(heatingData)
      [] type = k_circuit_mode -> CircuitModeBranch(heatingData)
      [] type = k_errors -> IntBranch(TopField(heatingData, "error"), heatingData)
      [] type = k_heat_quantity ->
            StrippedFloatBranch(TopField(heatingData, "sum_heat"), u_kWh, heatingData)
      [] type = k_outside_temp ->
            StrippedFloatBranch(TopField(heatingData, "temp_outside"), u_degC, heatingData)
      [] type = k_forerun_temp_actual ->
            StrippedFloatBranch(CircuitField(heatingData, "temp_forerun_actual"), u_degC, heatingData)
      [] type = k_forerun_temp_target ->
            StrippedFloatBranch(CircuitField(heatingData, "temp_forerun"), u_degC, heatingData)
      [] type = k_room_temp_target ->
            FloatBranch(CircuitField(heatingData, "temp_room_value"), heatingData)
      [] type = k_return_flow_temp ->
            StrippedFloatBranch(TopField(heatingData, "temp_heat"), u_degC, heatingData)
      [] type = k_hygienic_temp ->
            StrippedFloatBranch(TopField(heatingData, "temp_hygienic"), u_degC, heatingData)
      [] type = k_water_temp ->
            StrippedFloatBranch(TopField(heatingData, "temp_water"), u_degC, heatingData)
      [] OTHER -> Extracted("none", FALSE, None, heatingData)

\* A try block without its except clause.
WithoutExceptClause(x) == x

\* except ValueError: self._state = None.  Any other exception leaves the
\* block uncaught, with self._state as it was.
ExceptValueError(x) ==
    IF x.exc = "ValueError" THEN Extracted("none", TRUE, None, x.data) ELSE x

\* try: ... except ValueError: ...
Extraction(type, heatingData) ==
    CHOOSE r \in {ExceptValueError(x) : x \in {TryBlock(type, heatingData)}} : TRUE

\* ------------------------------------------------------ remote service
\* What requests.post(...).json() ends with: a RequestException (timeout or
\* connection failure), or the decoded body.
TransportError == [kind |-> "exc"]
Json(j) == [kind |-> "json", j |-> j]

LoginBodies ==
    { [token |-> "tA", installations |-> <<[id |-> "i7"], [id |-> "i8"]>>],
      [token |-> "tB", installations |-> <<[id |-> "i9"]>>],
      [installations |-> <<[id |-> "i7"]>>],
      [token |-> "tA"],
      [token |-> "tA", installations |-> <<>>] }

SnapshotA ==
    [mode |-> PStr(icon_auto), error |-> PStr(v_3), sum_heat |-> PStr(v_12_5_kWh),
     temp_outside |-> PStr(v_m3_5_C), temp_heat |-> PStr(v_30_C),
     temp_hygienic |-> PStr(v_48_2_C), temp_water |-> PStr(v_50_0_C),
     circuits |-> <<[mode |-> PStr(icon_12), temp_forerun_actual |-> PStr(v_28_4_C),
                     temp_forerun |-> PStr(v_29_C), temp_room_value |-> PFloat(215, 1)]>>]

SnapshotB ==
    [mode |-> PStr(icon_3), error |-> PInt(0), sum_heat |-> PStr(v_7_kWh),
     temp_outside |-> PStr(v_4_C), temp_heat |-> PStr(v_29_C),
     temp_hygienic |-> PStr(v_50_0_C), temp_water |-> PStr(v_48_2_C),
     circuits |-> <<[mode |-> PStr(icon_11), temp_forerun_actual |-> PStr(v_30_C),
                     temp_forerun |-> PStr(v_28_4_C), temp_room_value |-> PStr(v_22)]>>]

SnapshotErrorOnly == [error |-> PStr(v_3)]

SnapshotBad ==
    [mode |-> PStr(icon_35), error |-> PStr(v_x), sum_heat |-> PStr(v_nan_kWh),
     temp_outside |-> PStr(v_na_C), temp_heat |-> PStr(v_x),
     temp_hygienic |-> PStr(v_na_C), temp_water |-> PStr(v_x),
     circuits |-> <<[mode |-> PStr(icon_13), temp_forerun_actual |-> PStr(v_na_C),
                     temp_forerun |-> PStr(v_x), temp_room_value |-> PStr(v_x)]>>]

ValuesBodies == {SnapshotA, SnapshotB, SnapshotErrorOnly, SnapshotBad}

LoginOutcomes == {TransportError} \cup {Json(j) : j \in LoginBodies}
ValuesOutcomes == {TransportError} \cup {Json(j) : j \in ValuesBodies}

\* ------------------------------------------------------------ IdmData
\* throttle[1] of homeassistant.util.Throttle before the first call.
Never == -1

\* IdmData.__init__; throttle stands for the _throttle entry that the
\* decorator keeps on the object.
IdmData_init(username, password) ==
    [username |-> username, password |-> password, data |-> None, throttle |-> Never]

Request(path, payload) == [path |-> path, data |-> payload]

\* A payload with the id of the last installation instead of the first.
ValuesPayloadLast(j) ==
    [installation |-> j.installations[Len(j.installations)].id, token |-> j.token]

\* installation = j["installations"][0]["id"]
\* payload = {'installation': installation, 'token': token}
ValuesPayload(j) == [installation |-> j.installations[1].id, token |-> j.token]

Polled(data, res, wire) == [data |-> data, res |-> res, wire |-> wire]

\* A handler that returns False and keeps the snapshot.
OnRequestExceptionKeep(self, wire) == Polled(self.data, Ok(PFalse), wire)

\* except requests.exceptions.RequestException: self.data = None; return False
OnRequestException(self, wire) == Polled(None, Ok(PFalse), wire)

\* The body of IdmData.update: the login request, the two subscripts of its
\* response, the values request, the assignment of self.data.  A KeyError or
\* IndexError is no RequestException and leaves the method uncaught.
IdmData_update_body(self, login, values) ==
    LET req1 == Request(pathLogin,
                        [username |-> self.username, password |-> self.password])
    IN  IF login.kind = "exc" THEN OnRequestException(self, <<req1>>)
        ELSE IF "token" \notin DOMAIN login.j THEN Polled(self.data, Raise("KeyError"), <<req1>>)
        ELSE IF "installations" \notin DOMAIN login.j
             THEN Polled(self.data, Raise("KeyError"), <<req1>>)
        ELSE IF Len(login.j.installations) = 0
             THEN Polled(self.data, Raise("IndexError"), <<req1>>)
        ELSE LET req2 == Request(pathInstallations, ValuesPayload(login.j)) IN
             IF values.kind = "exc" THEN OnRequestException(self, <<req1, req2>>)
             ELSE Polled(Dict(values.j), Ok(None), <<req1, req2>>)

\* A limit that already counts as passed when exactly min_time has gone by.
OutsideLimitNonStrict(throttle, t) ==
    throttle = Never \/ t - throttle >= MIN_TIME_BETWEEN_UPDATES

\* A lock that every caller gets.
AcquireAlways(lock) == TRUE

\* throttle[0].acquire(False) of homeassistant.util.Throttle: the lock is
\* taken when it is free, and the caller is told at once when it is not.
TryAcquire(lock) == lock = 0

\* The limit test without the force of the first call.
OutsideLimitUnforced(throttle, t) ==
    throttle # Never /\ t - throttle > MIN_TIME_BETWEEN_UPDATES

\* force or utcnow() - throttle[1] > self.min_time, where force is
\* "not throttle[1]": no call has been stamped yet.
OutsideLimit(throttle, t) ==
    throttle = Never \/ t - throttle > MIN_TIME_BETWEEN_UPDATES

\* A wrapper that stamps only a call that returned None.
StampedOnSuccess(self, t, r) ==
    [self |-> [self EXCEPT !.data = r.data,
                           !.throttle = IF r.res = Ok(None) THEN t ELSE @],
     res |-> r.res, wire |-> r.wire, called |-> TRUE]

\* result = method(*args, **kwargs); throttle[1] = utcnow(); return result,
\* for the outcome r of the method called at time t.
Stamped(self, t, r) ==
    [self |-> [self EXCEPT !.data = r.data,
                           !.throttle = IF r.res.exc = "none" THEN t ELSE @],
     res |-> r.res, wire |-> r.wire, called |-> TRUE]

\* @Throttle(MIN_TIME_BETWEEN_UPDATES) def update(self): the wrapper calls
\* the method when the limit has passed and then stamps throttle[1] (a
\* method that raises leaves the stamp as it was); otherwise it returns None
\* without calling it.  The wrapper's lock is always free here: the host
\* makes the update calls one after another.  Yields the object after the
\* call, the result and the requests sent.
IdmData_update(self, t, login, values) ==
    IF OutsideLimit(self.throttle, t)
    THEN Stamped(self, t, IdmData_update_body(self, login, values))
    ELSE [self |-> self, res |-> Ok(None), wire |-> <<>>, called |-> FALSE]

\* -------------------------------------------------------------- setup
\* hashlib.sha1(password.encode()).hexdigest(): an opaque digest.
Sha1Hex(password) == <<"sha1", password>>

\* IdmHeatingSensor.__init__: data is a reference to an IdmData object (its
\* index in idm).
IdmHeatingSensor_init(data, sensor_type, types) ==
    [data |-> data, type |-> sensor_type,
     name |-> SENSOR_PREFIX \o Lookup(types, sensor_type)[1],
     unit |-> Lookup(types, sensor_type)[2],
     icon |-> Lookup(types, sensor_type)[3],
     state |-> None]

\* if sensor_type not in SENSOR_TYPES:
\*     SENSOR_TYPES[sensor_type] = [sensor_type.title(), '', 'mdi:flash']
Registered(types, sensor_type) ==
    IF HasKey(types, sensor_type) THEN types
    ELSE Append(types, <<sensor_type, <<Title(sensor_type), <<>>, "mdi:flash">>>>)

\* SENSOR_TYPES after the first i rounds of the loop over the resources.
RECURSIVE TypesAfter(_, _)
TypesAfter(resources, i) ==
    IF i = 0 THEN SENSOR_TYPES
    ELSE Registered(TypesAfter(resources, i - 1), Lower(resources[i]))

\* A setup that builds one IdmData per entity.
setup_platform_per_entity(cfg) ==
    [objects |-> [i \in DOMAIN cfg.resources |->
                     IdmData_init(cfg.username, Sha1Hex(cfg.password))],
     entities |-> [i \in DOMAIN cfg.resources |->
                     IdmHeatingSensor_init(i, Lower(cfg.resources[i]),
                                           TypesAfter(cfg.resources, i))]]

\* setup_platform: one IdmData, and one IdmHeatingSensor per resource, each
\* given that same object; a resource that is no key of SENSOR_TYPES is
\* entered into it first.  scanInterval is read and not used.
setup_platform(cfg) ==
    [objects |-> <<IdmData_init(cfg.username, Sha1Hex(cfg.password))>>,
     entities |-> [i \in DOMAIN cfg.resources |->
                     IdmHeatingSensor_init(1, Lower(cfg.resources[i]),
                                           TypesAfter(cfg.resources, i))]]

Config(resources, scan_interval) ==
    [username |-> "user", password |-> "secret",
     scan_interval |-> scan_interval, resources |-> resources]

\* The configurations checked; scan_interval is <<>> when not supplied.
Configs ==
    { Config(<<k_mode, k_errors>>, <<>>),
      Config(<<k_circuit_mode, k_heat_quantity>>, <<600>>),
      Config(<<k_outside_temp, k_room_temp_target>>, <<150>>),
      Config(<<k_forerun_temp_actual, k_forerun_temp_target>>, <<>>),
      Config(<<k_return_flow_temp, k_hygienic_temp>>, <<>>),
      Config(<<k_water_temp, k_power>>, <<>>),
      Config(<<r_Mode, k_mode>>, <<600>>) }

\* --------------------------------------------------- IdmHeatingSensor
\* The end of IdmHeatingSensor.update for the outcome u of self.data.update()
\* and the outcome x of the try block: the assignment to self._state, and the
\* snapshot object as the try block left it.
AfterTryBlock(self, u, x) ==
    [entity |-> [self EXCEPT !.state = IF x.assigned THEN x.state ELSE @],
     client |-> [u.self EXCEPT !.data = x.data],
     exc |-> x.exc, called |-> u.called, res |-> u.res, wire |-> u.wire,
     reached |-> TRUE, read |-> u.self.data]

\* u is the outcome of self.data.update(): an exception it raised leaves
\* the call at once; otherwise heatingData = self.data.data and the try block.
AfterClientUpdate(self, u) ==
    IF u.res.exc = "none"
    THEN CHOOSE r \in {AfterTryBlock(self, u, x) :
                         x \in {Extraction(self.type, u.self.data)}} : TRUE
    ELSE [entity |-> self, client |-> u.self,
          exc |-> u.res.exc, called |-> u.called, res |-> u.res, wire |-> u.wire,
          reached |-> FALSE, read |-> None]

\* IdmHeatingSensor.update: self.data.update(), heatingData = self.data.data,
\* then the try block.  Yields the entity and the IdmData object after the
\* call, the exception that leaves the call ("none" when it returns), and
\* what the call did: the client's result, the requests sent, and the
\* snapshot read into heatingData (when that line was reached).
IdmHeatingSensor_update(self, client, t, login, values) ==
    CHOOSE r \in {AfterClientUpdate(self, u) :
                    u \in {IdmData_update(client, t, login, values)}} : TRUE

\* --------------------------------------------------------------- state
\* now     the clock (seconds)
\* config  the configuration given to setup_platform
\* idm     the IdmData objects
\* views   the IdmHeatingSensor entities
\* last    the latest IdmHeatingSensor.update call: which entity, what it
\*         did (login is the answer to its login request, Unasked if it
\*         sent none), whether a snapshot was held and what the throttle
\*         stamp was before it, and the time of the call
\* hist    how the requests of the latest performed poll ended, and the
\*         times of the two latest values requests
\* since   what the latest poll that ran to its end left in self.data, and
\*         the entities whose update() has read self.data since then
\* probe   a token table, an order of its entries and a mode string, for
\*         the replacement loop taken by itself; unused while the platform
\*         runs
\* thr     for update calls made from several threads: the holder of the
\*         Throttle lock (0 when free), where each thread is in its call,
\*         what the polling thread holds, and when an entity last read
\*         self.data while a poll was under way; unused while the host
\*         makes the calls one after another
Unasked == [kind |-> "unasked"]

NoCall ==
    [view |-> 0, exc |-> "none", called |-> FALSE, res |-> Ok(None), wire |-> <<>>,
     login |-> Unasked, reached |-> FALSE, read |-> None, hadSnapshot |-> FALSE,
     throttleBefore |-> Never, at |-> 0]

NoProbe == [dictionary |-> <<>>, order |-> <<>>, s |-> <<>>, done |-> FALSE, out |-> <<>>]

InitPlatform ==
    /\ now = 0
    /\ config \in Configs
    /\ idm = setup_platform(config).objects
    /\ views = setup_platform(config).entities
    /\ last = NoCall
    /\ hist = [poll |-> [login |-> "never", values |-> "unasked"],
               valuesAt |-> Never, prevValuesAt |-> Never]
    /\ since = [snap |-> None, seen |-> {}]

NoThreads ==
    [lock |-> 0, pc |-> <<>>, login |-> Unasked, res |-> Ok(None), racedAt |-> Never]

Init == InitPlatform /\ probe = NoProbe /\ thr = NoThreads

\* Time passes.
Tick ==
    /\ now + TickStep <= MaxTime
    /\ now' = now + TickStep
    /\ UNCHANGED <<config, idm, views, last, hist, since, probe, thr>>

\* The state after the call r of update() of entity i, whose IdmData object
\* is c.
Recorded(i, c, login, values, r) ==
    /\ idm' = [idm EXCEPT ![c] = r.client]
    /\ views' = [views EXCEPT ![i] = r.entity]
    /\ last' = [view |-> i, exc |-> r.exc, called |-> r.called, res |-> r.res,
                wire |-> r.wire, login |-> login, reached |-> r.reached,
                read |-> r.read, hadSnapshot |-> idm[c].data # None,
                throttleBefore |-> idm[c].throttle, at |-> now]
    /\ hist' = [poll |-> IF r.called
                         THEN [login |-> login.kind, values |-> values.kind]
                         ELSE hist.poll,
                valuesAt |-> IF Len(r.wire) = 2 THEN now ELSE hist.valuesAt,
                prevValuesAt |-> IF Len(r.wire) = 2 THEN hist.valuesAt
                                 ELSE hist.prevValuesAt]
    /\ since' = IF ~r.reached THEN since
                ELSE IF r.called THEN [snap |-> r.read, seen |-> {i}]
                ELSE [since EXCEPT !.seen = @ \cup {i}]
    /\ UNCHANGED <<now, config, probe, thr>>

\* The host calls update() of entity i; the remote service answers the
\* requests of the call with login and values (Unasked for a request the
\* call does not send).
Update(i, login, values) ==
    \E r \in {IdmHeatingSensor_update(views[i], idm[views[i].data], now, login, values)} :
        Recorded(i, views[i].data, login, values, r)

\* The answers the remote service can give to the requests that update() of
\* entity i sends now.
LoginAnswers(i) ==
    IF IdmData_update(idm[views[i].data], now, TransportError, TransportError).called
    THEN LoginOutcomes ELSE {Unasked}

ValuesAnswers(i, login) ==
    IF login # Unasked
       /\ Len(IdmData_update(idm[views[i].data], now, login, TransportError).wire) = 2
    THEN ValuesOutcomes ELSE {Unasked}

Refresh == \E i \in DOMAIN views : \E login \in LoginAnswers(i) :
               \E values \in ValuesAnswers(i, login) : Update(i, login, values)

Next == Tick \/ Refresh

Spec == Init /\ [][Next]_vars

\* ============================================================== claims
\* The IdmData object of the entity of the latest update call.
LastClient == idm[views[last.view].data]
LastType == views[last.view].type
LastState == views[last.view].state

\* C1: every IdmHeatingSensor.update call returns normally, whatever the
\* remote service answers: no exception leaves the call.
C1_NoExceptionEscapes == last.exc = "none"

\* C2: after a poll whose login request failed with a transport error the
\* snapshot is absent, and an entity with an extraction rule that has run
\* update since then has an absent value.
C2_AbsentAfterLoginFailure ==
    (last.view # 0 /\ hist.poll.login = "exc" /\ LastType \in RuleKeys)
        => (LastClient.data = None /\ LastState = None)

\* C3: a performed IdmData.update whose login or values request ends in a
\* transport error returns False without raising and leaves the snapshot
\* absent, whatever it was before.
C3_TransportFailure ==
    (last.called /\ (hist.poll.login = "exc" \/ hist.poll.values = "exc"))
        => /\ last.res = Ok(PFalse)
           /\ last.reached
           /\ last.read = None
           /\ LastClient.data = None

\* A values request timed out while a snapshot was held.
C3_Witness ==
    /\ last.called /\ hist.poll.values = "exc" /\ last.hadSnapshot
    /\ last.res = Ok(PFalse) /\ LastClient.data = None

MalformedLogin(j) ==
    \/ "token" \notin DOMAIN j
    \/ "installations" \notin DOMAIN j
    \/ Len(j.installations) = 0

\* C4: a performed IdmData.update whose login response lacks the token or
\* the installations, or has an empty installation list, sends no values
\* request, leaves the snapshot absent and returns False instead of raising.
C4_MalformedLoginFails ==
    (last.called /\ last.login.kind = "json" /\ MalformedLogin(last.login.j))
        => /\ Len(last.wire) = 1
           /\ last.res = Ok(PFalse)
           /\ LastClient.data = None

\* The throttle stamp of IdmData object c is at most the window old.
InsideWindow(c) ==
    idm[c].throttle # Never /\ now - idm[c].throttle <= MIN_TIME_BETWEEN_UPDATES

C6_OnePollPerWindow ==
    /\ Len(idm) = 1
    /\ \A i \in DOMAIN views : views[i].data = 1
    /\ hist.prevValuesAt # Never
          => hist.valuesAt - hist.prevValuesAt > MIN_TIME_BETWEEN_UPDATES
    /\ (last.wire # <<>> /\ last.throttleBefore # Never)
          => last.at - last.throttleBefore > MIN_TIME_BETWEEN_UPDATES

\* Both entities were updated at the time of the only exchange so far; the
\* second call sent nothing and both hold a value.
C6_Witness ==
    /\ last.view # 0 /\ ~last.called /\ last.reached
    /\ hist.valuesAt = last.at /\ hist.prevValuesAt = Never
    /\ \A i \in DOMAIN views : views[i].state # None

\* The poll interval of the configuration, 300 s when none is supplied.
ConfiguredInterval ==
    IF config.scan_interval = <<>> THEN 300 ELSE config.scan_interval[1]

\* C7: the throttle window is the configured poll interval: two exchanges
\* are never closer than it, and a call made more than it after the latest
\* poll does poll.
C7_WindowIsConfiguredInterval ==
    /\ hist.prevValuesAt # Never => hist.valuesAt - hist.prevValuesAt >= ConfiguredInterval
    /\ (last.view # 0 /\ last.throttleBefore # Never
        /\ last.at - last.throttleBefore > ConfiguredInterval) => last.called

\* C8: a performed poll sends exactly one login request and then at most
\* one values request; the values request follows a login response of the
\* same call that has a token and an installation, and carries that token
\* and the first installation's id; a call that does not poll sends nothing.
C8_FreshLoginPerPoll ==
    /\ ~last.called => last.wire = <<>>
    /\ last.called =>
          /\ Len(last.wire) \in {1, 2}
          /\ last.wire[1].path = pathLogin
    /\ Len(last.wire) = 2 =>
          /\ last.login.kind = "json"
          /\ ~MalformedLogin(last.login.j)
          /\ last.wire[2].path = pathInstallations
          /\ last.wire[2].data = [installation |-> last.login.j.installations[1].id,
                                  token |-> last.login.j.token]

\* A second poll whose login answered with another token and with two
\* installations, of which the first was sent.
C8_Witness ==
    /\ Len(last.wire) = 2 /\ last.throttleBefore # Never
    /\ Len(last.login.j.installations) = 2
    /\ last.wire[2].data = [installation |-> "i7", token |-> "tA"]

\* C9: an update whose IdmData.update call is throttled leaves the shared
\* snapshot as the entity read it.
C9_ViewLeavesSnapshot ==
    (last.view # 0 /\ last.reached /\ ~last.called) => LastClient.data = last.read

\* The extraction table of the documentation: the field of each key, its
\* unit suffix, and the values that are well formed for it.
DocTopField(key) ==
    CASE key = k_mode -> "mode"
      [] key = k_errors -> "error"
      [] key = k_heat_quantity -> "sum_heat"
      [] key = k_outside_temp -> "temp_outside"
      [] key = k_return_flow_temp -> "temp_heat"
      [] key = k_hygienic_temp -> "temp_hygienic"
      [] key = k_water_temp -> "temp_water"
      [] OTHER -> ""

DocCircuitField(key) ==
    CASE key = k_circuit_mode -> "mode"
      [] key = k_forerun_temp_actual -> "temp_forerun_actual"
      [] key = k_forerun_temp_target -> "temp_forerun"
      [] key = k_room_temp_target -> "temp_room_value"
      [] OTHER -> ""

DocHasField(key, snapshot) ==
    /\ snapshot.t = "dict"
    /\ \/ DocTopField(key) \in DOMAIN snapshot.d
       \/ /\ DocCircuitField(key) # ""
          /\ "circuits" \in DOMAIN snapshot.d
          /\ Len(snapshot.d.circuits) > 0
          /\ DocCircuitField(key) \in DOMAIN snapshot.d.circuits[1]

DocFieldValue(key, snapshot) ==
    IF DocCircuitField(key) # "" THEN snapshot.d.circuits[1][DocCircuitField(key)]
    ELSE snapshot.d[DocTopField(key)]

DocSuffix(key) ==
    CASE key = k_heat_quantity -> u_kWh
      [] key \in {k_outside_temp, k_forerun_temp_actual, k_forerun_temp_target,
                  k_return_flow_temp, k_hygienic_temp, k_water_temp} -> u_degC
      [] OTHER -> <<>>

DocTable(key) == IF key = k_mode THEN modeDictionary ELSE circuitModeDictionary

\* A number written out: [-] digits [ . digits ].
IsPlainNumber(s) ==
    /\ AllDigits(IntPart(Unsigned(s))) /\ Len(IntPart(Unsigned(s))) > 0
    /\ PointAt(s) # 0 => (AllDigits(FracPart(s)) /\ Len(FracPart(s)) > 0)
    /\ s[1] # "+"

EndsWith(s, suffix) ==
    Len(s) >= Len(suffix) /\ SubSeq(s, Len(s) - Len(suffix) + 1, Len(s)) = suffix

BeforeSuffix(s, suffix) == SubSeq(s, 1, Len(s) - Len(suffix))

DocWellFormed(key, v) ==
    CASE key \in {k_mode, k_circuit_mode} ->
            v.t = "str" /\ \E p \in Range(DocTable(key)) : p[1] = v.s
      [] key = k_errors ->
            \/ v.t = "int"
            \/ v.t = "str" /\ v.s # <<>> /\ IsPlainNumber(v.s) /\ PointAt(v.s) = 0
      [] key = k_room_temp_target ->
            \/ v.t \in {"int", "float"}
            \/ v.t = "str" /\ v.s # <<>> /\ IsPlainNumber(v.s)
      [] OTHER ->
            /\ v.t = "str" /\ EndsWith(v.s, DocSuffix(key))
            /\ BeforeSuffix(v.s, DocSuffix(key)) # <<>>
            /\ IsPlainNumber(BeforeSuffix(v.s, DocSuffix(key)))

\* The documented coercion of a well-formed field value.
DocValue(key, v) ==
    CASE key \in {k_mode, k_circuit_mode} ->
            PStr((CHOOSE p \in Range(DocTable(key)) : p[1] = v.s)[2])
      [] key = k_errors -> IF v.t = "int" THEN v ELSE PInt(IntValue(v.s))
      [] key = k_room_temp_target ->
            IF v.t = "float" THEN v
            ELSE IF v.t = "int" THEN PFloat(v.n, 0) ELSE DecimalValue(v.s)
      [] OTHER -> DecimalValue(BeforeSuffix(v.s, DocSuffix(key)))

\* C10: when update reads a snapshot that holds a well-formed value in the
\* field of the entity's key, the call returns with the entity's state set
\* to the documented coercion of that value (integer, the number before the
\* unit suffix, the number itself, or the label of the mode token), whatever
\* other fields the snapshot has or lacks.
C10_DocumentedCoercion ==
    (/\ last.view # 0 /\ last.reached /\ LastType \in RuleKeys
     /\ DocHasField(LastType, last.read)
     /\ DocWellFormed(LastType, DocFieldValue(LastType, last.read)))
        => /\ last.exc = "none"
           /\ LastState = DocValue(LastType, DocFieldValue(LastType, last.read))

\* The errors entity read the snapshot {"error": "3"} and holds integer 3.
C10_Witness ==
    /\ last.view # 0 /\ last.reached /\ LastType = k_errors
    /\ last.read = Dict(SnapshotErrorOnly)
    /\ LastState = PInt(3)

\* The keys whose rule converts the field to a number.
NumericKeys == RuleKeys \ {k_mode, k_circuit_mode}

\* A string that is no number once the characters of the unit suffix are
\* taken off its end.
Unparseable(key, v) ==
    /\ v.t = "str"
    /\ IF key = k_errors THEN ~IsIntLiteral(Strip(v.s))
       ELSE ~IsDecimalLiteral(Strip(RStrip(v.s, DocSuffix(key))))

\* C11: an update that reads a snapshot whose field for the entity's numeric
\* key holds a string that is no number after suffix stripping returns
\* normally with the entity's state None, leaves the client's snapshot as it
\* read it, and leaves every other entity as it was.
C11_CoercionFailure ==
    [][(/\ last'.view # 0 /\ last'.reached
        /\ views[last'.view].type \in NumericKeys
        /\ DocHasField(views[last'.view].type, last'.read)
        /\ Unparseable(views[last'.view].type,
                       DocFieldValue(views[last'.view].type, last'.read)))
          => /\ last'.exc = "none"
             /\ views'[last'.view].state = None
             /\ idm'[views[last'.view].data].data = last'.read
             /\ \A j \in DOMAIN views : j # last'.view => views'[j] = views[j]]_vars

\* The heat_quantity entity read "not-a-number kWh" and holds None, after
\* the circuit_mode entity next to it resolved a value from the same snapshot.
C11_Witness ==
    /\ last.view # 0 /\ last.reached /\ last.exc = "none"
    /\ LastType = k_heat_quantity /\ DocHasField(k_heat_quantity, last.read)
    /\ DocFieldValue(k_heat_quantity, last.read) = PStr(v_nan_kWh)
    /\ LastState = None
    /\ \E j \in DOMAIN views : j # last.view /\ views[j].state # None

\* C12: an update of an entity that has read self.data since the latest
\* poll, and whose own IdmData.update is throttled, leaves the entity's
\* state exactly as it was, for every key and every snapshot.
C12_ExtractionIdempotent ==
    [][(/\ last'.view \in since.seen /\ ~last'.called
        /\ last'.at = now /\ hist' = hist)
          => views'[last'.view].state = views[last'.view].state]_vars

\* The mode entity was updated a second time on the snapshot it had already
\* translated in place, and holds the same label.
C12_Witness ==
    /\ last.view # 0 /\ ~last.called /\ last.reached /\ last.exc = "none"
    /\ LastType = k_mode /\ last.view \in since.seen
    /\ \A j \in DOMAIN views : j # last.view => views[j].type # k_mode
    /\ since.snap # None /\ since.snap # last.read
    /\ DocFieldValue(k_mode, since.snap) = PStr(icon_auto)
    /\ DocFieldValue(k_mode, last.read) = PStr(l_Automatik)
    /\ LastState = PStr(l_Automatik)

\* ------------------------------------------- failure followed by recovery
\* The remote service may fail in any way up to the time RecoverAt; after it
\* every login and every values request is answered with a complete,
\* well-formed body.  The host keeps calling update() of every entity, and
\* time keeps passing.
RecoveredLogins == {o \in LoginOutcomes : o.kind = "json" /\ ~MalformedLogin(o.j)}
RecoveredValues == {Json(SnapshotA), Json(SnapshotB)}

RefreshRecovered(i) ==
    /\ i \in DOMAIN views
    /\ now > RecoverAt
    /\ \E login \in LoginAnswers(i) \cap (RecoveredLogins \cup {Unasked}) :
         \E values \in ValuesAnswers(i, login) \cap (RecoveredValues \cup {Unasked}) :
            Update(i, login, values)

RefreshBeforeRecovery == now <= RecoverAt /\ Refresh

NextLive == Tick \/ RefreshBeforeRecovery \/ \E i \in DOMAIN views : RefreshRecovered(i)

\* The most entities a configuration asks for.
MostEntities ==
    CHOOSE n \in {Len(c.resources) : c \in Configs} :
        \A m \in {Len(c.resources) : c \in Configs} : m <= n

SpecLive ==
    /\ Init /\ [][NextLive]_vars
    /\ WF_vars(Tick)
    /\ \A i \in 1..MostEntities : WF_vars(RefreshRecovered(i))

\* Entity i holds the documented coercion of the field that the latest poll
\* stored for its key.
Resolved(i) ==
    /\ DocHasField(views[i].type, since.snap)
    /\ DocWellFormed(views[i].type, DocFieldValue(views[i].type, since.snap))
    /\ views[i].state = DocValue(views[i].type, DocFieldValue(views[i].type, since.snap))

\* C13: whatever failed before, an update that reads the snapshot of a poll
\* that stored a well-formed field for the entity's key returns with the
\* entity resolved to the coercion of that field; and when the remote
\* service fails for a while and then recovers, every entity with a rule
\* ends up resolved and stays so.
C13_NoTerminalState ==
    /\ [](( /\ last.view # 0 /\ last.reached /\ LastType \in RuleKeys
            /\ DocHasField(LastType, since.snap)
            /\ DocWellFormed(LastType, DocFieldValue(LastType, since.snap)))
              => (last.exc = "none" /\ Resolved(last.view)))
    /\ <>[](\A i \in DOMAIN views : views[i].type \in RuleKeys => Resolved(i))

\* After the recovery an update polls once the window of a poll that ended
\* in a transport failure has passed, and its entity is resolved.
C13_Witness ==
    /\ last.view # 0 /\ last.called /\ last.reached /\ last.at > RecoverAt
    /\ last.throttleBefore # Never /\ ~last.hadSnapshot
    /\ LastType \in RuleKeys /\ Resolved(last.view)

n_Heating_Power == <<"H","e","a","t","i","n","g"," ","P","o","w","e","r">>

C15_NoRetry ==
    [][(/\ "exc" \in {hist.poll.login, hist.poll.values}
        /\ now' = now /\ last'.view # 0)
          => /\ idm[views[last'.view].data].data = None
             /\ IF now - idm[views[last'.view].data].throttle <= MIN_TIME_BETWEEN_UPDATES
                THEN /\ ~last'.called /\ last'.wire = <<>>
                     /\ idm'[views[last'.view].data].data = None
                ELSE /\ last'.called /\ Len(last'.wire) >= 1
                     /\ last'.wire[1].path = pathLogin
                     /\ (last'.login.kind = "json" /\ ~MalformedLogin(last'.login.j))
                           => (Len(last'.wire) = 2
                               /\ last'.wire[2].path = pathInstallations)]_vars

\* An update made exactly MIN_TIME_BETWEEN_UPDATES after a poll whose login
\* request ended in a transport error: no request, no snapshot.
C15_Witness ==
    /\ last.view # 0 /\ ~last.called /\ last.wire = <<>>
    /\ hist.poll.login = "exc"
    /\ last.at - last.throttleBefore = MIN_TIME_BETWEEN_UPDATES
    /\ LastClient.data = None

\* ------------------------------------------------- the replacement loop
\* for key, value in dictionary.items(): s = s.replace(key, value), for the
\* two token tables with their entries taken in every order, on the mode
\* strings below.
icon_1_icon_12 == icon_1 \o <<" ">> \o icon_12
icon_112 == <<"i","c","o","n","_","1","1","2">>

ModeStrings ==
    {icon_12, icon_auto, icon_3, icon_24, icon_21, icon_11, icon_5, icon_1,
     icon_35, icon_13, icon_50, icon_1_icon_12, icon_112, l_Aus, <<>>}

Injective(p) == \A i, j \in DOMAIN p : p[i] = p[j] => i = j
Reordered(dictionary) ==
    {[i \in DOMAIN dictionary |-> dictionary[p[i]]] :
        p \in {q \in [DOMAIN dictionary -> DOMAIN dictionary] : Injective(q)}}

InitTable ==
    /\ InitPlatform
    /\ config = Config(<<k_mode, k_errors>>, <<>>)
    /\ \E dictionary \in {modeDictionary, circuitModeDictionary} :
         \E order \in Reordered(dictionary) : \E s \in ModeStrings :
            probe = [dictionary |-> dictionary, order |-> order, s |-> s,
                     done |-> FALSE, out |-> <<>>]
    /\ thr = NoThreads

ApplyInOrder ==
    /\ ~probe.done
    /\ probe' = [probe EXCEPT !.done = TRUE, !.out = Translate(probe.s, probe.order)]
    /\ UNCHANGED <<now, config, idm, views, last, hist, since, thr>>

NextTable == ApplyInOrder

SpecTable == InitTable /\ [][NextTable]_vars

IsSubstring(a, b) == \E i \in 1..Len(b) : StartsAt(b, i, a)

\* No token of the table is a substring of another token of the table.
NoTokenInAnother(dictionary) ==
    \A i, j \in DOMAIN dictionary :
        i # j => ~IsSubstring(dictionary[i][1], dictionary[j][1])

\* Every token is applied before the tokens it contains.
ContainingFirst(order) ==
    \A i, j \in DOMAIN order :
        i < j => ~IsSubstring(order[i][1], order[j][1])

\* C16 as stated: in each table no token is a substring of another token of
\* the table, and the replacement gives the same result in every order of
\* the table's entries.
C16_OrderIndependent ==
    probe.done =>
        /\ NoTokenInAnother(probe.dictionary)
        /\ probe.out = Translate(probe.s, probe.dictionary)

\* C16: in modeDictionary no token is a substring of another; in
\* circuitModeDictionary icon_1 is a substring of icon_12 and of icon_11, and
\* of no other token.  Both tables list every token before the tokens it
\* contains, and the replacement gives the result of the insertion order in
\* every order that does so.
C16_ContainingTokensFirst ==
    /\ probe.dictionary = modeDictionary => NoTokenInAnother(probe.dictionary)
    /\ probe.dictionary = circuitModeDictionary =>
          \A i, j \in DOMAIN probe.dictionary :
             (i # j /\ IsSubstring(probe.dictionary[i][1], probe.dictionary[j][1]))
                => (probe.dictionary[i][1] = icon_1
                    /\ probe.dictionary[j][1] \in {icon_12, icon_11})
    /\ probe.dictionary # <<>> => ContainingFirst(probe.dictionary)
    /\ (probe.done /\ ContainingFirst(probe.order))
          => probe.out = Translate(probe.s, probe.dictionary)

\* circuitModeDictionary applied to "icon_12" in another order than the
\* insertion order, with icon_1 after icon_12 and icon_11, gives "Aus".
C16_Witness ==
    /\ probe.done /\ probe.dictionary = circuitModeDictionary
    /\ probe.order # probe.dictionary /\ ContainingFirst(probe.order)
    /\ probe.order[1][1] = icon_5
    /\ probe.s = icon_12 /\ probe.out = l_Aus

\* Strings of the form of a code token that are in neither token table.
UnknownTokens == {icon_35, icon_13, icon_50}

\* C17: an update of the mode or circuit_mode entity that reads a snapshot
\* whose mode field is a code token outside the token tables returns with
\* the entity's state equal to that same string.
C17_UnknownTokenUnchanged ==
    (/\ last.view # 0 /\ last.reached /\ LastType \in {k_mode, k_circuit_mode}
     /\ DocHasField(LastType, last.read)
     /\ DocFieldValue(LastType, last.read).t = "str"
     /\ DocFieldValue(LastType, last.read).s \in UnknownTokens)
        => /\ last.exc = "none"
           /\ LastState = DocFieldValue(LastType, last.read)

\* C18: an update changes the state of no other entity, and every entity
\* that has read self.data since the latest poll holds the value that the
\* try block assigns from the snapshot as that poll stored it, whichever
\* entities were updated in between and however often.
C18_SiblingOrderIrrelevant ==
    /\ [](\A i \in since.seen :
             Extraction(views[i].type, since.snap).assigned
                => views[i].state = Extraction(views[i].type, since.snap).state)
    /\ [][\A j \in DOMAIN views :
             j # last'.view => views'[j].state = views[j].state]_vars

\* Two entities of the key mode: the second read the snapshot after the
\* first had translated its mode field in place, and both hold the label of
\* the polled token.
C18_Witness ==
    /\ since.seen = DOMAIN views /\ last.view = 2 /\ last.reached
    /\ \A i \in DOMAIN views : views[i].type = k_mode /\ views[i].state = PStr(l_Automatik)
    /\ since.snap # None /\ DocFieldValue(k_mode, since.snap) = PStr(icon_auto)
    /\ DocFieldValue(k_mode, last.read) = PStr(l_Automatik)

\* ------------------------------------------- update calls from threads
\* Thread t makes the update calls of entity t.  A call goes through the
\* Throttle wrapper (try the lock; test the limit), the login request, the
\* values request, the end of the wrapper (stamp, release) and the rest of
\* IdmHeatingSensor.update (heatingData = self.data.data and the try block);
\* the steps of the two threads interleave, and time passes in between.
InitThreads ==
    /\ InitPlatform
    /\ probe = NoProbe
    /\ thr = [lock |-> 0, pc |-> [t \in DOMAIN config.resources |-> "idle"],
              login |-> Unasked, res |-> Ok(None), racedAt |-> Never]

\* The wrapper up to the call of the method.
Call(t) ==
    /\ thr.pc[t] = "idle"
    /\ IF ~TryAcquire(thr.lock) THEN thr' = [thr EXCEPT !.pc[t] = "read"]
       ELSE IF OutsideLimit(idm[views[t].data].throttle, now)
            THEN thr' = [thr EXCEPT !.lock = t, !.pc[t] = "login"]
            ELSE thr' = [thr EXCEPT !.pc[t] = "read"]
    /\ UNCHANGED <<now, config, idm, views, last, hist, since, probe>>

\* The login request and the subscripts of its response.
Login(t, login) ==
    /\ thr.pc[t] = "login"
    /\ \E r \in {IdmData_update_body(idm[views[t].data], login, TransportError)} :
          IF Len(r.wire) = 2
          THEN /\ thr' = [thr EXCEPT !.pc[t] = "values", !.login = login]
               /\ idm' = idm
          ELSE /\ thr' = [thr EXCEPT !.pc[t] = "return", !.res = r.res]
               /\ idm' = [idm EXCEPT ![views[t].data].data = r.data]
    /\ UNCHANGED <<now, config, views, last, hist, since, probe>>

\* The values request and the assignment of self.data.
Values(t, values) ==
    /\ thr.pc[t] = "values"
    /\ \E r \in {IdmData_update_body(idm[views[t].data], thr.login, values)} :
          /\ thr' = [thr EXCEPT !.pc[t] = "return", !.login = Unasked, !.res = r.res]
          /\ idm' = [idm EXCEPT ![views[t].data].data = r.data]
    /\ hist' = [hist EXCEPT !.valuesAt = now, !.prevValuesAt = hist.valuesAt]
    /\ UNCHANGED <<now, config, views, last, since, probe>>

\* The end of the wrapper: the stamp of a method that returned, and the
\* release of the lock; an exception leaves IdmHeatingSensor.update too.
Return(t) ==
    /\ thr.pc[t] = "return"
    /\ idm' = [idm EXCEPT ![views[t].data] =
                  Stamped(@, now, Polled(@.data, thr.res, <<>>)).self]
    /\ thr' = [thr EXCEPT !.lock = IF @ = t THEN 0 ELSE @, !.res = Ok(None),
                          !.pc[t] = IF thr.res.exc = "none" THEN "read" ELSE "idle"]
    /\ UNCHANGED <<now, config, views, last, hist, since, probe>>

\* heatingData = self.data.data and the try block.
Read(t) ==
    /\ thr.pc[t] = "read"
    /\ \E x \in {Extraction(views[t].type, idm[views[t].data].data)} :
          /\ views' = [views EXCEPT ![t].state = IF x.assigned THEN x.state ELSE @]
          /\ idm' = [idm EXCEPT ![views[t].data].data = x.data]
    /\ thr' = [thr EXCEPT !.pc[t] = "idle",
                          !.racedAt = IF thr.lock # 0 THEN now ELSE @]
    /\ UNCHANGED <<now, config, last, hist, since, probe>>

NextThreads ==
    \/ Tick
    \/ \E t \in DOMAIN views :
          \/ Call(t)
          \/ \E login \in LoginOutcomes : Login(t, login)
          \/ \E values \in ValuesOutcomes : Values(t, values)
          \/ Return(t)
          \/ Read(t)

SpecThreads == InitThreads /\ [][NextThreads]_vars

\* The threads inside the method: between the limit test and the release.
PollingThreads == {t \in DOMAIN thr.pc : thr.pc[t] \in {"login", "values", "return"}}

\* C19 as stated: the limit test and the exchange are one mutually exclusive
\* step, two values requests are more than the window apart, and no entity
\* reads self.data while a poll is under way.
C19_MutuallyExclusiveStep ==
    /\ Cardinality(PollingThreads) <= 1
    /\ hist.prevValuesAt # Never
          => hist.valuesAt - hist.prevValuesAt > MIN_TIME_BETWEEN_UPDATES
    /\ thr.racedAt = Never

\* C19: only the thread that holds the lock is inside the method, so at
\* most one thread at a time sends requests, a call that finds the lock
\* taken sends none, and two values requests are more than the window apart.
C19_AtMostOneExchange ==
    /\ \A t \in PollingThreads : thr.lock = t
    /\ Cardinality(PollingThreads) <= 1
    /\ hist.prevValuesAt # Never
          => hist.valuesAt - hist.prevValuesAt > MIN_TIME_BETWEEN_UPDATES

\* In a later window one thread has sent its values request and holds the
\* lock, while the update call of the other entity, made at the same time,
\* has come back without a request and has read self.data.
C19_Witness ==
    /\ hist.prevValuesAt # Never /\ hist.valuesAt = now
    /\ thr.racedAt = now /\ thr.lock # 0
    /\ \E t \in DOMAIN thr.pc : thr.pc[t] = "return"
    /\ \E t \in DOMAIN thr.pc : thr.pc[t] = "idle"

====
